---- MODULE Spec2Model ----
(***************************************************************************)
(* Model of the MAAS client: construction of a client from                 *)
(* (base_url, api_key, api_version), OAuth1 header generation and the      *)
(* request pipeline of the verb methods get/post/put/delete, for the async *)
(* client (src/client.rs, mod client), the blocking client                 *)
(* (src/client.rs, mod blocking_client) and the older blocking client of   *)
(* src/lib.rs.                                                             *)
(*                                                                         *)
(* Strings the code slices (URLs, keys, endpoints) are sequences of        *)
(* one-character strings; strings the code only carries around (HTTP       *)
(* methods, response bodies, messages) are TLA+ strings.                   *)
(***************************************************************************)
EXTENDS Integers, Sequences, FiniteSets, TLC

VARIABLES
    args,       \* the arguments handed to MaasClient::new
    client,     \* Result of client::MaasClient::new (async client)
    bclient,    \* Result of blocking_client::MaasClient::new / lib.rs MaasClient::new
    calls       \* per call: position in request(), the request built, the outcome

vars == <<args, client, bclient, calls>>

(***************************************************************************)
(* Bounds                                                                  *)
(***************************************************************************)
MaxSlashes == 3     \* most '/' characters at the end of a base_url
MaxLead    == 2     \* most '/' characters at the start of an endpoint
MaxKeyLen  == 4     \* longest api_key tried by the construction specification

(***************************************************************************)
(* String helpers (Rust std)                                               *)
(***************************************************************************)
RECURSIVE Slashes(_)
Slashes(n) == IF n = 0 THEN <<>> ELSE <<"/">> \o Slashes(n - 1)

RECURSIVE SeqsUpTo(_, _)
SeqsUpTo(S, n) ==
    IF n = 0 THEN {<<>>}
    ELSE LET shorter == SeqsUpTo(S, n - 1)
         IN  shorter \cup {Append(s, c) : s \in shorter, c \in S}

\* str::trim_end_matches(c): remove every trailing c
RECURSIVE trim_end_matches(_, _)
trim_end_matches(s, c) ==
    IF Len(s) > 0 /\ s[Len(s)] = c
    THEN trim_end_matches(SubSeq(s, 1, Len(s) - 1), c)
    ELSE s

\* str::trim_start_matches(c): remove every leading c
RECURSIVE trim_start_matches(_, _)
trim_start_matches(s, c) ==
    IF Len(s) > 0 /\ s[1] = c
    THEN trim_start_matches(Tail(s), c)
    ELSE s

\* str::split(c).collect(): the fields between separators; n separators give
\* n + 1 fields, empty fields included, the empty string gives one empty field
RECURSIVE SplitFrom(_, _, _, _)
SplitFrom(s, c, i, cur) ==
    IF i > Len(s) THEN <<cur>>
    ELSE IF s[i] = c THEN <<cur>> \o SplitFrom(s, c, i + 1, <<>>)
    ELSE SplitFrom(s, c, i + 1, Append(cur, s[i]))

split(s, c) == SplitFrom(s, c, 1, <<>>)

(***************************************************************************)
(* Construction                                                            *)
(***************************************************************************)
NoFields == [base_url |-> <<>>, consumer_key |-> <<>>, token_key |-> <<>>,
             token_secret |-> <<>>, api_version |-> <<>>]

NotBuilt == [state |-> "none", err |-> "", fields |-> NoFields]

\* the fields both constructors store on success
Fields_NoTrim(base_url, parts, api_version) ==
    [base_url     |-> base_url,
     consumer_key |-> parts[1],
     token_key    |-> parts[2],
     token_secret |-> parts[3],
     api_version  |-> api_version]

Fields(base_url, parts, api_version) ==
    [base_url     |-> trim_end_matches(base_url, "/"),
     consumer_key |-> parts[1],
     token_key    |-> parts[2],
     token_secret |-> parts[3],
     api_version  |-> api_version]

\* client::MaasClient::new
MaasClient_new_AtLeast3(base_url, api_key, api_version) ==
    LET parts == split(api_key, ":")
    IN  IF Len(parts) < 3
        THEN [state |-> "err", err |-> "InvalidKeyFormat", fields |-> NoFields]
        ELSE [state |-> "ok", err |-> "", fields |-> Fields(base_url, parts, api_version)]

MaasClient_new(base_url, api_key, api_version) ==
    LET parts == split(api_key, ":")
    IN  IF Len(parts) # 3
        THEN [state |-> "err", err |-> "InvalidKeyFormat", fields |-> NoFields]
        ELSE [state |-> "ok", err |-> "", fields |-> Fields(base_url, parts, api_version)]

\* blocking_client::MaasClient::new and lib.rs MaasClient::new: the same
\* parsing, but the failure is an anyhow error carrying only a message
blocking_MaasClient_new(base_url, api_key, api_version) ==
    LET parts == split(api_key, ":")
    IN  IF Len(parts) # 3
        THEN [state |-> "err", err |-> "anyhow: Invalid API Key format. Expected A:B:C",
              fields |-> NoFields]
        ELSE [state |-> "ok", err |-> "", fields |-> Fields(base_url, parts, api_version)]

(***************************************************************************)
(* OAuth1 header                                                           *)
(***************************************************************************)
Unreserved == {"c", "t", "s", "k", "h", "m", "a", "p", "i", "2", ".", "-", "_", "~"}

\* RFC 3986 percent-encoding of one character, for the characters of the model
EncodeChar(ch) ==
    IF ch \in Unreserved THEN <<ch>>
    ELSE IF ch = "/" THEN <<"%", "2", "F">>
    ELSE IF ch = ":" THEN <<"%", "3", "A">>
    ELSE IF ch = "!" THEN <<"%", "2", "1">>
    ELSE <<"%", "?", "?">>

RECURSIVE PercentEncode(_)
PercentEncode(s) ==
    IF s = <<>> THEN <<>> ELSE EncodeChar(Head(s)) \o PercentEncode(Tail(s))

\* oauth1_request::Credentials::new(identifier, secret)
Credentials_new(identifier, secret) == [identifier |-> identifier, secret |-> secret]

\* oauth1_request::Token::new(client, token)
Token_new(client_creds, token_creds) == [client |-> client_creds, token |-> token_creds]

\* oauth1_request::authorize(method, url, &(), token, HmacSha1): the header
\* as its parameters.  The HMAC-SHA1 digest is kept symbolic: the signing key
\* and the method and URL of the base string it is computed over.  Nonce and
\* timestamp are left out: no field of the client and no argument of a call
\* flows into them.
authorize(method, url, token) ==
    [oauth_consumer_key     |-> PercentEncode(token.client.identifier),
     oauth_token            |-> PercentEncode(token.token.identifier),
     oauth_signature_method |-> "HMAC-SHA1",
     oauth_version          |-> "1.0",
     oauth_signature        |->
        [key    |-> PercentEncode(token.client.secret) \o <<"&">>
                        \o PercentEncode(token.token.secret),
         method |-> method,
         url    |-> url]]

\* MaasClient::generate_auth_header (identical in the three clients)
generate_auth_header_SecretAsConsumerSecret(self, method, url) ==
    LET client_creds == Credentials_new(self.consumer_key, self.token_secret)
        token_creds  == Credentials_new(self.token_key, self.token_secret)
        oauth_token  == Token_new(client_creds, token_creds)
    IN  authorize(method, url, oauth_token)

generate_auth_header(self, method, url) ==
    LET client_creds == Credentials_new(self.consumer_key, <<>>)
        token_creds  == Credentials_new(self.token_key, self.token_secret)
        oauth_token  == Token_new(client_creds, token_creds)
    IN  authorize(method, url, oauth_token)

(***************************************************************************)
(* Request pipeline                                                        *)
(***************************************************************************)
Variants == {"async", "blocking", "lib"}
Verbs    == {"get", "post", "put", "delete"}

None == "None"
\* the Option<Value> a caller may pass to post/put
Bodies == {None, "{\"k\":1}"}

\* the literal method each verb method passes to request()
VerbMethod(verb) ==
    CASE verb = "get"    -> "GET"
      [] verb = "post"   -> "POST"
      [] verb = "put"    -> "PUT"
      [] verb = "delete" -> "DELETE"

\* the body each verb method passes to request(): get and delete pass None
VerbBody(verb, body) == IF verb \in {"get", "delete"} THEN None ELSE body

\* method.parse::<reqwest::Method>(): the standard methods parse to themselves
\* (case-sensitive); anything that is not an HTTP token is an error
StandardMethods == {"GET", "POST", "PUT", "DELETE", "HEAD", "OPTIONS", "PATCH",
                    "CONNECT", "TRACE"}
Method_parse(method) ==
    IF method \in StandardMethods
    THEN [ok |-> TRUE, method |-> method]
    ELSE [ok |-> FALSE, method |-> ""]

ApiSeg == <<"/", "a", "p", "i", "/">>

\* client.rs, both modules: format!("{}/api/{}/{}", base_url, api_version,
\* endpoint.trim_start_matches('/'))
client_url_NoTrim(self, endpoint) ==
    self.base_url \o ApiSeg \o self.api_version \o <<"/">> \o endpoint

client_url(self, endpoint) ==
    self.base_url \o ApiSeg \o self.api_version \o <<"/">>
        \o trim_start_matches(endpoint, "/")

\* lib.rs: format!("{}/api/{}{}", base_url, api_version, endpoint)
lib_url(self, endpoint) ==
    self.base_url \o ApiSeg \o self.api_version \o endpoint

request_url(variant, self, endpoint) ==
    IF variant = "lib" THEN lib_url(self, endpoint) ELSE client_url(self, endpoint)

NoHeader == authorize("", <<>>, Token_new(Credentials_new(<<>>, <<>>),
                                          Credentials_new(<<>>, <<>>)))
NoRequest == [built |-> FALSE, method |-> "", url |-> <<>>, authorization |-> NoHeader,
              content_type |-> "", body |-> None]

\* request(), up to the send: the URL, the header signed over it, and the
\* request builder.  The async client falls back to GET when the method does
\* not parse; the blocking clients return early ("Invalid HTTP method").
build_request_SignsUnversioned(variant, self, method, endpoint, body) ==
    LET url         == request_url(variant, self, endpoint)
        auth_header == generate_auth_header(self, method, self.base_url \o endpoint)
        parsed      == Method_parse(method)
    IN  IF ~parsed.ok /\ variant # "async"
        THEN NoRequest
        ELSE [built         |-> TRUE,
              method        |-> IF parsed.ok THEN parsed.method ELSE "GET",
              url           |-> url,
              authorization |-> auth_header,
              content_type  |-> "application/json",
              body          |-> body]

build_request(variant, self, method, endpoint, body) ==
    LET url         == request_url(variant, self, endpoint)
        auth_header == generate_auth_header(self, method, url)
        parsed      == Method_parse(method)
    IN  IF ~parsed.ok /\ variant # "async"
        THEN NoRequest
        ELSE [built         |-> TRUE,
              method        |-> IF parsed.ok THEN parsed.method ELSE "GET",
              url           |-> url,
              authorization |-> auth_header,
              content_type  |-> "application/json",
              body          |-> body]

(***************************************************************************)
(* Responses and outcomes                                                  *)
(***************************************************************************)
Statuses == {200, 299, 300, 401}

\* StatusCode::is_success
is_success(status) == 200 =< status /\ status =< 299

\* what the transport delivers as the body: readable text or a read failure
Unreadable == [readable |-> FALSE, text |-> ""]
RespBodies == {[readable |-> TRUE, text |-> "[1]"],
               [readable |-> TRUE, text |-> "{not json"],
               Unreadable}

\* serde_json::from_slice::<Value>
ValidJson == {"[1]", "{\"k\":1}"}
Json_parse(text) ==
    IF text \in ValidJson
    THEN [ok |-> TRUE, value |-> "Value(" \o text \o ")"]
    ELSE [ok |-> FALSE, value |-> ""]

\* Response::text().unwrap_or_default()
text_or_default(resp) == IF resp.readable THEN resp.text ELSE ""

\* Response::json::<Value>(): reading or parsing may fail, both as reqwest::Error
Response_json(resp) ==
    IF resp.readable THEN Json_parse(resp.text) ELSE [ok |-> FALSE, value |-> ""]

NoOutcome == [kind |-> "none", status |-> 0, body |-> "", value |-> "", msg |-> ""]
Ok(value) == [NoOutcome EXCEPT !.kind = "Ok", !.value = value]
Err(kind) == [NoOutcome EXCEPT !.kind = kind]
ApiError(status, body) ==
    [NoOutcome EXCEPT !.kind = "ApiError", !.status = status, !.body = body]
\* anyhow::Error: an untyped error with a message
Anyhow(msg, status, body) ==
    [NoOutcome EXCEPT !.kind = "Anyhow", !.msg = msg, !.status = status, !.body = body]

\* request() after a failed send: `?` on reqwest::Error (async, From gives
\* MaasError::Network) or .context("Failed to send request") (blocking)
on_send_error(variant) ==
    IF variant = "async" THEN Err("NetworkError")
    ELSE Anyhow("Failed to send request", 0, "")

\* request() after the response arrived: status check, then text or JSON
on_response_Unauthorized(variant, status, resp) ==
    IF ~is_success(status) THEN
        [read    |-> "text",
         outcome |-> IF variant = "async"
                     THEN IF status = 401 THEN Err("Unauthorized")
                          ELSE ApiError(status, text_or_default(resp))
                     ELSE Anyhow("MAAS Error", status, text_or_default(resp))]
    ELSE
        LET json == Response_json(resp)
        IN  [read    |-> "json",
             outcome |-> IF json.ok THEN Ok(json.value)
                         ELSE IF variant = "async" THEN Err("NetworkError")
                         ELSE Anyhow("Failed to parse JSON response", 0, "")]

on_response(variant, status, resp) ==
    IF ~is_success(status) THEN
        \* response.text().unwrap_or_default(); response.json() is not called
        [read    |-> "text",
         outcome |-> IF variant = "async"
                     THEN ApiError(status, text_or_default(resp))
                     ELSE Anyhow("MAAS Error", status, text_or_default(resp))]
    ELSE
        \* response.json() fails with reqwest::Error, which `?` turns into
        \* MaasError::Network (async) or into an anyhow error with context
        LET json == Response_json(resp)
        IN  [read    |-> "json",
             outcome |-> IF json.ok THEN Ok(json.value)
                         ELSE IF variant = "async" THEN Err("NetworkError")
                         ELSE Anyhow("Failed to parse JSON response", 0, "")]

(***************************************************************************)
(* State machine                                                           *)
(***************************************************************************)
CallIds == {1, 2}

Idle == [pc |-> "idle", variant |-> "", verb |-> "", endpoint |-> <<>>, body |-> None,
         request |-> NoRequest, sends |-> 0, status |-> 0, resp |-> Unreadable,
         read |-> "", outcome |-> NoOutcome]

H == <<"h">>
V == <<"2">>
M == <<"m">>

\* endpoints: "m/" behind 0..MaxLead leading slashes
Endpoints == {Slashes(k) \o M \o <<"/">> : k \in 0..MaxLead}

\* arguments of new for the request pipeline
Args == [base_url    : {H \o <<"/">>},
         api_key     : {<<"c", ":", "t", ":", "s", "!">>, <<"c", ":", "t">>},
         api_version : {V}]

\* arguments of new for the construction specification
KeyChars == {"c", "t", ":"}
ArgsNew == [base_url    : {p \o Slashes(k) : p \in {<<>>, H, H \o <<"/">> \o H},
                                            k \in 0..MaxSlashes},
            api_key     : SeqsUpTo(KeyChars, MaxKeyLen),
            api_version : {V, V \o <<"/">>}]

Init ==
    /\ args \in Args
    /\ client = NotBuilt
    /\ bclient = NotBuilt
    /\ calls = [id \in CallIds |-> Idle]

InitNew ==
    /\ args \in ArgsNew
    /\ client = NotBuilt
    /\ bclient = NotBuilt
    /\ calls = [id \in CallIds |-> Idle]

\* MaasClient::new(base_url, api_key, api_version), async client
New ==
    /\ client.state = "none"
    /\ client' = MaasClient_new(args.base_url, args.api_key, args.api_version)
    /\ UNCHANGED <<args, bclient, calls>>

\* MaasClient::new(base_url, api_key, api_version), blocking clients
BlockingNew ==
    /\ bclient.state = "none"
    /\ bclient' = blocking_MaasClient_new(args.base_url, args.api_key, args.api_version)
    /\ UNCHANGED <<args, client, calls>>

Self(variant) == IF variant = "async" THEN client ELSE bclient

\* get/post/put/delete -> request(), up to and including request.send()
started(c, variant, verb, endpoint, body) ==
    LET req == build_request(variant, Self(variant).fields, VerbMethod(verb), endpoint,
                             VerbBody(verb, body))
    IN  [c EXCEPT !.variant = variant, !.verb = verb, !.endpoint = endpoint,
                  !.body = body, !.request = req,
                  !.pc = IF req.built THEN "sent" ELSE "done",
                  !.sends = IF req.built THEN 1 ELSE 0,
                  !.outcome = IF req.built THEN NoOutcome
                              ELSE Anyhow("Invalid HTTP method", 0, "")]

Call_StoresUrl(id, variant, verb, endpoint, body) ==
    /\ calls[id].pc = "idle"
    /\ Self(variant).state = "ok"
    /\ verb \in {"get", "delete"} => body = None
    /\ calls' = [calls EXCEPT ![id] = started(calls[id], variant, verb, endpoint, body)]
    /\ client' = IF variant = "async"
                 THEN [client EXCEPT !.fields.base_url =
                                        client_url(client.fields, endpoint)]
                 ELSE client
    /\ UNCHANGED <<args, bclient>>

Call(id, variant, verb, endpoint, body) ==
    /\ calls[id].pc = "idle"
    /\ Self(variant).state = "ok"
    /\ verb \in {"get", "delete"} => body = None
    /\ calls' = [calls EXCEPT ![id] = started(calls[id], variant, verb, endpoint, body)]
    /\ UNCHANGED <<args, client, bclient>>

\* request.send() returns Err
SendError_Retry(id) ==
    /\ calls[id].pc = "sent"
    /\ calls' = IF calls[id].sends < 2
                THEN [calls EXCEPT ![id].sends = @ + 1]
                ELSE [calls EXCEPT ![id].pc = "done",
                                   ![id].outcome = on_send_error(calls[id].variant)]
    /\ UNCHANGED <<args, client, bclient>>

SendError(id) ==
    /\ calls[id].pc = "sent"
    /\ calls' = [calls EXCEPT ![id].pc = "done",
                              ![id].outcome = on_send_error(calls[id].variant)]
    /\ UNCHANGED <<args, client, bclient>>

\* request.send() returns a response; response.status()
RecvStatus(id, status) ==
    /\ calls[id].pc = "sent"
    /\ calls' = [calls EXCEPT ![id].pc = "status", ![id].status = status]
    /\ UNCHANGED <<args, client, bclient>>

\* response.text() or response.json() completes, request() returns
RecvBody(id, resp) ==
    /\ calls[id].pc = "status"
    /\ LET r == on_response(calls[id].variant, calls[id].status, resp)
       IN  calls' = [calls EXCEPT ![id].pc = "done", ![id].resp = resp,
                                  ![id].read = r.read, ![id].outcome = r.outcome]
    /\ UNCHANGED <<args, client, bclient>>

Next ==
    \/ New
    \/ BlockingNew
    \/ \E id \in CallIds, variant \in Variants, verb \in Verbs, endpoint \in Endpoints,
          body \in Bodies : Call(id, variant, verb, endpoint, body)
    \/ \E id \in CallIds : SendError(id)
    \/ \E id \in CallIds, status \in Statuses : RecvStatus(id, status)
    \/ \E id \in CallIds, resp \in RespBodies : RecvBody(id, resp)

NextNew == New \/ BlockingNew

Spec == Init /\ [][Next]_vars

SpecNew == InitNew /\ [][NextNew]_vars

(***************************************************************************)
(* Properties                                                              *)
(***************************************************************************)
CountChar(s, c) == Cardinality({i \in 1..Len(s) : s[i] = c})

StartsWithSlash(s) == Len(s) > 0 /\ s[1] = "/"
EndsWithSlash(s)   == Len(s) > 0 /\ s[Len(s)] = "/"

Issued(c)   == c.pc # "idle"
Answered(c) == c.pc = "done" /\ c.status # 0

\* C1: the async MaasClient::new succeeds exactly when api_key holds two ':'
\* (three fields); then api_key is consumer_key ":" token_key ":" token_secret
\* with no ':' inside a field; otherwise it fails with InvalidKeyFormat and
\* stores nothing.
C1_KeyParsing ==
    client.state # "none" =>
        IF CountChar(args.api_key, ":") = 2
        THEN /\ client.state = "ok"
             /\ args.api_key = client.fields.consumer_key \o <<":">>
                                \o client.fields.token_key \o <<":">>
                                \o client.fields.token_secret
             /\ CountChar(client.fields.consumer_key, ":") = 0
             /\ CountChar(client.fields.token_key, ":") = 0
             /\ CountChar(client.fields.token_secret, ":") = 0
        ELSE /\ client.state = "err"
             /\ client.err = "InvalidKeyFormat"
             /\ client.fields = NoFields

\* "::" was accepted with three empty fields
C1_Witness ==
    /\ args.api_key = <<":", ":">>
    /\ client.state = "ok"
    /\ client.fields.consumer_key = <<>>
    /\ client.fields.token_key = <<>>
    /\ client.fields.token_secret = <<>>

C3_SerializationError ==
    \A id \in CallIds :
        LET c == calls[id] IN
        (Answered(c) /\ c.variant = "async" /\ c.status \in 200..299 /\ c.resp.readable) =>
            IF c.resp.text \in ValidJson
            THEN c.outcome = Ok(Json_parse(c.resp.text).value)
            ELSE c.outcome.kind = "SerializationError"

\* C4: the URL requested by the clients of client.rs is base_url "/api/"
\* api_version "/" followed by the endpoint without its leading slashes; an
\* endpoint's trailing slash survives, and e and "/" e give the same URL.
C4_RequestUrl ==
    /\ \A id \in CallIds :
        LET c == calls[id] IN
        (Issued(c) /\ c.variant # "lib") =>
            \E k \in 0..Len(c.endpoint) :
                LET rest == SubSeq(c.endpoint, k + 1, Len(c.endpoint)) IN
                /\ c.endpoint = Slashes(k) \o rest
                /\ ~StartsWithSlash(rest)
                /\ c.request.url = Self(c.variant).fields.base_url \o ApiSeg
                                     \o Self(c.variant).fields.api_version
                                     \o <<"/">> \o rest
                /\ (rest # <<>> => EndsWithSlash(c.request.url) = EndsWithSlash(c.endpoint))
    /\ \A i, j \in CallIds :
        (/\ Issued(calls[i]) /\ Issued(calls[j])
         /\ calls[i].variant # "lib" /\ calls[j].variant # "lib"
         /\ calls[j].endpoint = <<"/">> \o calls[i].endpoint)
            => calls[i].request.url = calls[j].request.url

\* "m/" and "/m/" were both requested and gave "h/api/2/m/"
C4_Witness ==
    /\ Issued(calls[1]) /\ calls[1].variant = "async"
    /\ calls[1].endpoint = <<"m", "/">>
    /\ Issued(calls[2]) /\ calls[2].variant = "async"
    /\ calls[2].endpoint = <<"/", "m", "/">>
    /\ calls[1].request.url = <<"h", "/", "a", "p", "i", "/", "2", "/", "m", "/">>
    /\ calls[2].request.url = calls[1].request.url

\* C5: in every client, the method and URL the Authorization header is signed
\* over are the method and URL of the request that is sent.
C5_SignsFinalUrl ==
    \A id \in CallIds :
        LET c == calls[id] IN
        c.sends > 0 =>
            /\ c.request.authorization.oauth_signature.method = c.request.method
            /\ c.request.authorization.oauth_signature.url = c.request.url
            /\ c.request.method = VerbMethod(c.verb)

\* a POST to "/m/" went out signed
C5_Witness ==
    \E id \in CallIds :
        /\ calls[id].sends > 0 /\ calls[id].verb = "post"
        /\ calls[id].endpoint = <<"/", "m", "/">>
        /\ calls[id].request.authorization.oauth_signature.method = "POST"

\* C6: a verb call sends once: a call that is under way or has returned has
\* called send() exactly once, whatever its outcome.
C6_ExactlyOneSend ==
    \A id \in CallIds :
        /\ calls[id].sends =< 1
        /\ Issued(calls[id]) => calls[id].sends = 1

\* a call returned after a failed send, another after a 2xx response with an
\* unparsable body
C6_Witness ==
    /\ calls[1].pc = "done" /\ calls[1].status = 0 /\ calls[1].sends = 1
    /\ calls[1].outcome.kind \in {"NetworkError", "Anyhow"}
    /\ calls[2].pc = "done" /\ calls[2].status = 200
    /\ calls[2].resp.text = "{not json" /\ calls[2].sends = 1

\* C7: the async client and the blocking clients agree: a call on the async
\* client and a call on a blocking client with the same verb, endpoint and
\* body request and sign the same URL, and return the same outcome when the
\* transport behaves the same.
C7_Interchangeable ==
    \A i, j \in CallIds :
        LET a == calls[i]
            b == calls[j]
        IN  (/\ Issued(a) /\ Issued(b)
             /\ a.variant = "async" /\ b.variant # "async"
             /\ a.verb = b.verb /\ a.endpoint = b.endpoint /\ a.body = b.body)
            => /\ a.request.url = b.request.url
               /\ a.request.authorization = b.request.authorization
               /\ (/\ a.pc = "done" /\ b.pc = "done"
                   /\ a.status = b.status /\ a.resp = b.resp)
                  => a.outcome = b.outcome

\* C8: after a successful new, base_url is the given base_url without its
\* trailing '/' characters and api_version is the given api_version.
C8_BaseUrlTrimmed ==
    client.state = "ok" =>
        /\ ~EndsWithSlash(client.fields.base_url)
        /\ \E k \in 0..Len(args.base_url) :
              args.base_url = client.fields.base_url \o Slashes(k)
        /\ client.fields.api_version = args.api_version

\* "h///" was stored as "h"
C8_Witness ==
    /\ client.state = "ok"
    /\ args.base_url = <<"h", "/", "/", "/">>
    /\ client.fields.base_url = <<"h">>

AllUnreserved(s) == \A i \in 1..Len(s) : s[i] \in Unreserved

\* C9: with consumer key c and token key t of unreserved characters, every
\* header carries oauth_consumer_key c, oauth_token t, HMAC-SHA1 and a
\* signature, and the signing key is the empty consumer secret, "&", and the
\* encoded token secret.
C9_HeaderFields ==
    \A id \in CallIds :
        LET c    == calls[id]
            self == Self(c.variant).fields
            hdr  == c.request.authorization
        IN  (c.request.built /\ AllUnreserved(self.consumer_key)
                             /\ AllUnreserved(self.token_key)) =>
            /\ hdr.oauth_consumer_key = self.consumer_key
            /\ hdr.oauth_token = self.token_key
            /\ hdr.oauth_signature_method = "HMAC-SHA1"
            /\ "oauth_signature" \in DOMAIN hdr
            /\ hdr.oauth_signature.key = <<"&">> \o PercentEncode(self.token_secret)

\* a header for key "c:t:s!" was produced
C9_Witness ==
    \E id \in CallIds :
        /\ calls[id].request.built
        /\ calls[id].request.authorization.oauth_consumer_key = <<"c">>
        /\ calls[id].request.authorization.oauth_token = <<"t">>
        /\ calls[id].request.authorization.oauth_signature.key = <<"&", "s", "%", "2", "1">>

\* what a call computes from its own arguments and its own response
SameCall(a, b) ==
    /\ a.variant = b.variant /\ a.verb = b.verb
    /\ a.endpoint = b.endpoint /\ a.body = b.body

Independent ==
    \A i, j \in CallIds :
        (Issued(calls[i]) /\ Issued(calls[j]) /\ SameCall(calls[i], calls[j])) =>
            /\ calls[i].request = calls[j].request
            /\ (/\ calls[i].pc = "done" /\ calls[j].pc = "done"
                /\ calls[i].status = calls[j].status
                /\ calls[i].resp = calls[j].resp)
               => calls[i].outcome = calls[j].outcome

\* C10: no step of any call changes a constructed client, and calls with the
\* same arguments build the same request and, given the same response, return
\* the same outcome, however they interleave.
C10_Isolation ==
    [][/\ client.state = "ok" => client' = client
       /\ bclient.state = "ok" => bclient' = bclient
       /\ Independent']_vars

\* two calls with the same arguments, one returned and one still in flight
C10_Witness ==
    /\ calls[1].pc = "done" /\ calls[2].pc \in {"sent", "status"}
    /\ SameCall(calls[1], calls[2])
    /\ calls[1].variant = "async"

====
